---- MODULE Spec2Model ----
(***************************************************************************)
(* fpyx: request fingerprinting for rate limiting buckets.                 *)
(*                                                                         *)
(* The library is a set of pure, synchronous functions.  A string is a     *)
(* sequence of one-character strings, an Optional<string> is a record      *)
(* [some, val], and a Headers object is a function from lower-case header  *)
(* names to values.  Every exported or internal function of the source is  *)
(* an operator that follows the control flow of the code; the state        *)
(* machine calls one function at a time on inputs drawn from bounded sets  *)
(* and keeps the arguments and the returned value in the state.            *)
(***************************************************************************)
EXTENDS Integers, Sequences, FiniteSets, TLC

VARIABLES
    op,          \* the function that was called last, "idle" before a call
    value,       \* the string argument of normalizeIpCandidate
    headers,     \* the Headers object of the call
    precedence,  \* the precedence list of the call
    ret,         \* the Optional<string> the call returned
    srcMethod,   \* the method of the source of a fingerprint call
    srcUrl,      \* the url of the source of a fingerprint call
    opts,        \* the options of a fingerprint call
    resTraits,   \* the traits passed to buildParts or returned by fingerprint
    resParts,    \* the parts returned by buildParts or by fingerprint
    resHash,     \* the hash returned by fingerprint
    resCalls,    \* the callbacks and the hash function fingerprint invoked
    thrown,      \* the error the call threw, "none" when it returned
    hashData,    \* the bytes handed to fnv1a64Hex
    memo,        \* history: the first fingerprint call that was remembered
    fpCalls,     \* history: the number of remembered fingerprint calls so far
    defaultIpHeaders,  \* the array DEFAULT_IP_HEADERS of constants.ts as it is in memory
    invalidIpTokens    \* the Set INVALID_IP_TOKENS of constants.ts as it is in memory

ipVars == <<value, precedence, ret>>

fpVars == <<srcMethod, srcUrl, opts, resTraits, resParts, resHash, resCalls>>

detVars == <<memo, fpCalls>>

constVars == <<defaultIpHeaders, invalidIpTokens>>

vars == <<op, headers, thrown, hashData, ipVars, fpVars, detVars, constVars>>

(***************************************************************************)
(* Bounds of the model.                                                    *)
(***************************************************************************)
\* fragments concatenated into the core of a generated candidate
MaxFrag == 2
\* entries of a generated precedence list
MaxPrec == 2
\* bytes of a generated input of fnv1a64Hex
MaxBytes == 3
\* fingerprint calls counted in a history
MaxCalls == 3

(***************************************************************************)
(* Optional<T> = T | null                                                  *)
(***************************************************************************)
Null == [some |-> FALSE, val |-> << >>]
Some(s) == [some |-> TRUE, val |-> s]

(***************************************************************************)
(* JavaScript string primitives the source uses, with 0-based indices.     *)
(***************************************************************************)
\* white space removed by String.prototype.trim (the ASCII part of it)
WhiteSpace == {" ", "\t", "\n", "\r", "\f"}

Digits == {"0", "1", "2", "3", "4", "5", "6", "7", "8", "9"}

UpperCase == <<"A", "B", "C", "D", "E", "F", "G", "H", "I", "J", "K", "L", "M",
               "N", "O", "P", "Q", "R", "S", "T", "U", "V", "W", "X", "Y", "Z">>
LowerCase == <<"a", "b", "c", "d", "e", "f", "g", "h", "i", "j", "k", "l", "m",
               "n", "o", "p", "q", "r", "s", "t", "u", "v", "w", "x", "y", "z">>

RECURSIVE trimStart(_)
trimStart(s) ==
    IF s # << >> /\ Head(s) \in WhiteSpace THEN trimStart(Tail(s)) ELSE s

RECURSIVE trimEnd(_)
trimEnd(s) ==
    IF s # << >> /\ s[Len(s)] \in WhiteSpace
    THEN trimEnd(SubSeq(s, 1, Len(s) - 1))
    ELSE s

trim(s) == trimEnd(trimStart(s))

toLowerChar(c) ==
    IF \E i \in 1..Len(UpperCase) : UpperCase[i] = c
    THEN LowerCase[CHOOSE i \in 1..Len(UpperCase) : UpperCase[i] = c]
    ELSE c

toLowerCase(s) == [i \in 1..Len(s) |-> toLowerChar(s[i])]

startsWith(s, c) == Len(s) >= 1 /\ s[1] = c

endsWith(s, c) == Len(s) >= 1 /\ s[Len(s)] = c

includes(s, c) == \E i \in 1..Len(s) : s[i] = c

\* index of the first c in s, -1 when there is none
indexOf(s, c) ==
    IF includes(s, c)
    THEN (CHOOSE i \in 1..Len(s) :
             s[i] = c /\ \A j \in 1..(i - 1) : s[j] # c) - 1
    ELSE -1

\* index of the last c in s, -1 when there is none
lastIndexOf(s, c) ==
    IF includes(s, c)
    THEN (CHOOSE i \in 1..Len(s) :
             s[i] = c /\ \A j \in (i + 1)..Len(s) : s[j] # c) - 1
    ELSE -1

\* s.slice(from, to) for 0 <= from and 0 <= to
slice(s, from, to) == SubSeq(s, from + 1, to)

\* s.split(c) for a one-character separator: never empty, "" gives [""]
RECURSIVE split(_, _)
split(s, c) ==
    LET i == indexOf(s, c)
    IN  IF i = -1
        THEN <<s>>
        ELSE <<slice(s, 0, i)>> \o split(slice(s, i + 1, Len(s)), c)

(***************************************************************************)
(* constants.ts                                                            *)
(***************************************************************************)
\* a faulty variant: a token is missing from the set
INVALID_IP_TOKENS_noNone ==
    { << >>,
      <<"u", "n", "k", "n", "o", "w", "n">>,
      <<"n", "u", "l", "l">> }

INVALID_IP_TOKENS ==
    { << >>,
      <<"u", "n", "k", "n", "o", "w", "n">>,
      <<"n", "u", "l", "l">>,
      <<"n", "o", "n", "e">> }

(***************************************************************************)
(* ip-extraction.ts                                                        *)
(***************************************************************************)
\* the length of the run of digits of s that starts at position i (1-based)
RECURSIVE digitRun(_, _)
digitRun(s, i) ==
    IF i <= Len(s) /\ s[i] \in Digits THEN 1 + digitRun(s, i + 1) ELSE 0

\* \d{1,3} followed by the character c, from position i: the position after c,
\* 0 when there is no match.  The character after the digits is no digit, so
\* the only way to match is to take the whole run.
octetThen(s, i, c) ==
    IF i = 0
    THEN 0
    ELSE LET n == digitRun(s, i)
         IN  IF n >= 1 /\ n <= 3 /\ i + n <= Len(s) /\ s[i + n] = c
             THEN i + n + 1
             ELSE 0

\* a faulty variant: "contains a colon and a dot", the heuristic the regular expression replaced
IPV4_WITH_PORT_RE_bad(s) == includes(s, ":") /\ includes(s, ".")

\* /^(?:\d{1,3}\.){3}\d{1,3}:\d+$/.test(s)
IPV4_WITH_PORT_RE(s) ==
    LET p == octetThen(s, octetThen(s, octetThen(s, octetThen(s, 1, "."), "."), "."), ":")
    IN  /\ p # 0
        /\ p <= Len(s)
        /\ p + digitRun(s, p) = Len(s) + 1

\* a faulty variant: empty brackets pass (closingIndex > 0)
normalizeIpCandidate_emptyBrackets(v) ==
    IF ~v.some
    THEN Null
    ELSE LET trimmed == trim(v.val)
             lower == toLowerCase(trimmed)
         IN  IF trimmed = << >> THEN Null
             ELSE IF lower \in INVALID_IP_TOKENS THEN Null
             ELSE IF startsWith(trimmed, "_") THEN Null
             ELSE IF startsWith(trimmed, "[")
                  THEN LET closingIndex == indexOf(trimmed, "]")
                       IN  IF closingIndex > 0
                           THEN Some(slice(trimmed, 1, closingIndex))
                           ELSE Null
             ELSE IF IPV4_WITH_PORT_RE(trimmed)
                  THEN Some(slice(trimmed, 0, lastIndexOf(trimmed, ":")))
                  ELSE Some(trimmed)

normalizeIpCandidate(v) ==
    IF ~v.some
    THEN Null
    ELSE LET trimmed == trim(v.val)
             lower == toLowerCase(trimmed)
         IN  IF trimmed = << >> THEN Null
             ELSE IF lower \in INVALID_IP_TOKENS THEN Null
             ELSE IF startsWith(trimmed, "_") THEN Null
             ELSE IF startsWith(trimmed, "[")
                  THEN LET closingIndex == indexOf(trimmed, "]")
                       IN  IF closingIndex > 1
                           THEN Some(slice(trimmed, 1, closingIndex))
                           ELSE Null
             ELSE IF IPV4_WITH_PORT_RE(trimmed)
                  THEN Some(slice(trimmed, 0, lastIndexOf(trimmed, ":")))
                  ELSE Some(trimmed)

\* v without every pair of enclosing double quotes
RECURSIVE stripQuotes(_)
stripQuotes(v) ==
    IF startsWith(v, "\"") /\ endsWith(v, "\"") /\ Len(v) >= 2
    THEN stripQuotes(slice(v, 1, Len(v) - 1))
    ELSE v

\* a faulty variant: every pair of enclosing double quotes is removed
cleanForwardedIdentifier_allQuotes(v) ==
    LET trimmed == trim(stripQuotes(v))
    IN  IF trimmed = << >> THEN Null
        ELSE IF startsWith(trimmed, "[")
             THEN LET closingIndex == indexOf(trimmed, "]")
                  IN  IF closingIndex > 1
                      THEN Some(slice(trimmed, 1, closingIndex))
                      ELSE Null
        ELSE IF IPV4_WITH_PORT_RE(trimmed)
             THEN Some(slice(trimmed, 0, lastIndexOf(trimmed, ":")))
             ELSE Some(trimmed)

cleanForwardedIdentifier(v) ==
    LET unquoted == IF startsWith(v, "\"") /\ endsWith(v, "\"") /\ Len(v) >= 2
                    THEN slice(v, 1, Len(v) - 1)
                    ELSE v
        trimmed == trim(unquoted)
    IN  IF trimmed = << >> THEN Null
        ELSE IF startsWith(trimmed, "[")
             THEN LET closingIndex == indexOf(trimmed, "]")
                  IN  IF closingIndex > 1
                      THEN Some(slice(trimmed, 1, closingIndex))
                      ELSE Null
        ELSE IF IPV4_WITH_PORT_RE(trimmed)
             THEN Some(slice(trimmed, 0, lastIndexOf(trimmed, ":")))
             ELSE Some(trimmed)

\* a faulty variant: a for= value that normalization rejects is skipped as well
RECURSIVE forDirective_firstValid(_)
forDirective_firstValid(directives) ==
    IF directives = << >>
    THEN Null
    ELSE LET kv == split(Head(directives), "=")
         IN  IF Len(kv) < 2
             THEN forDirective_firstValid(Tail(directives))
             ELSE IF toLowerCase(trim(kv[1])) # <<"f", "o", "r">>
             THEN forDirective_firstValid(Tail(directives))
             ELSE LET cleaned == cleanForwardedIdentifier(trim(kv[2]))
                  IN  IF normalizeIpCandidate(cleaned).some
                      THEN cleaned
                      ELSE forDirective_firstValid(Tail(directives))

\* the inner loop of parseForwarded: the directives of one entry
RECURSIVE forDirective(_)
forDirective(directives) ==
    IF directives = << >>
    THEN Null
    ELSE LET kv == split(Head(directives), "=")
         IN  IF Len(kv) < 2
             THEN forDirective(Tail(directives))
             ELSE IF toLowerCase(trim(kv[1])) # <<"f", "o", "r">>
             THEN forDirective(Tail(directives))
             ELSE LET cleaned == cleanForwardedIdentifier(trim(kv[2]))
                  IN  IF cleaned.some
                      THEN cleaned
                      ELSE forDirective(Tail(directives))

\* the outer loop of parseForwarded: the comma-separated entries
RECURSIVE forEntry(_)
forEntry(entries) ==
    IF entries = << >>
    THEN Null
    ELSE LET found == forDirective(split(trim(Head(entries)), ";"))
         IN  IF found.some THEN found ELSE forEntry(Tail(entries))

parseForwarded(v) == forEntry(split(v, ","))

\* a faulty variant: the last hop instead of the first
takeFirstListEntry_lastEntry(v) ==
    LET entries == split(v, ",") IN trim(entries[Len(entries)])

takeFirstListEntry(v) == trim(split(v, ",")[1])

\* the characters of an HTTP token
TokenChars ==
    Digits \cup {UpperCase[i] : i \in 1..Len(UpperCase)}
        \cup {LowerCase[i] : i \in 1..Len(LowerCase)}
        \cup {"!", "#", "$", "%", "&", "'", "*", "+", "-", ".", "^", "_", "U+0060", "|", "~"}

\* Headers.prototype.get throws a TypeError when name is not a header name,
\* that is, not a non-empty token
IsHeaderName(name) == name # << >> /\ \A i \in 1..Len(name) : name[i] \in TokenChars

\* Headers.prototype.get on a header name: names are matched case-insensitively
HeadersGet(h, name) ==
    IF toLowerCase(name) \in DOMAIN h THEN Some(h[toLowerCase(name)]) ELSE Null

FORWARDED == <<"f", "o", "r", "w", "a", "r", "d", "e", "d">>
X_FORWARDED_FOR == <<"x", "-", "f", "o", "r", "w", "a", "r", "d", "e", "d", "-", "f", "o", "r">>

\* a faulty variant: the name of the entry is compared as it is spelled
headerIp_caseSensitive(h, headerName) ==
    LET v == HeadersGet(h, headerName)
    IN  IF ~v.some THEN Null
        ELSE IF headerName = FORWARDED
             THEN normalizeIpCandidate(parseForwarded(v.val))
        ELSE IF headerName = X_FORWARDED_FOR
             THEN normalizeIpCandidate(Some(takeFirstListEntry(v.val)))
             ELSE normalizeIpCandidate(Some(trim(v.val)))

\* what one iteration of the loop of extractClientIp gets from one header
headerIp(h, headerName) ==
    LET v == HeadersGet(h, headerName)
        normalizedName == toLowerCase(headerName)
    IN  IF ~v.some THEN Null
        ELSE IF normalizedName = FORWARDED
             THEN normalizeIpCandidate(parseForwarded(v.val))
        ELSE IF normalizedName = X_FORWARDED_FOR
             THEN normalizeIpCandidate(Some(takeFirstListEntry(v.val)))
             ELSE normalizeIpCandidate(Some(trim(v.val)))

\* a faulty variant: the first header that is present decides, valid or not
RECURSIVE extractClientIp_stopAtPresent(_, _)
extractClientIp_stopAtPresent(h, prec) ==
    IF prec = << >>
    THEN Null
    ELSE IF HeadersGet(h, Head(prec)).some
         THEN headerIp(h, Head(prec))
         ELSE extractClientIp_stopAtPresent(h, Tail(prec))

\* a faulty variant: the loop keeps scanning after a match
RECURSIVE extractClientIp_lastWins(_, _)
extractClientIp_lastWins(h, prec) ==
    IF prec = << >>
    THEN Null
    ELSE LET later == extractClientIp_lastWins(h, Tail(prec))
         IN  IF later.some THEN later ELSE headerIp(h, Head(prec))

\* whether the loop of extractClientIp reaches a headers.get that throws
RECURSIVE extractClientIpThrows(_, _)
extractClientIpThrows(h, prec) ==
    IF prec = << >>
    THEN FALSE
    ELSE IF ~IsHeaderName(Head(prec))
         THEN TRUE
         ELSE IF headerIp(h, Head(prec)).some
              THEN FALSE
              ELSE extractClientIpThrows(h, Tail(prec))

\* what extractClientIp returns when no headers.get throws
RECURSIVE extractClientIp(_, _)
extractClientIp(h, prec) ==
    IF prec = << >>
    THEN Null
    ELSE LET ip == headerIp(h, Head(prec))
         IN  IF ip.some THEN ip ELSE extractClientIp(h, Tail(prec))

(***************************************************************************)
(* constants.ts and hash.ts.  A BigInt is the sequence of its bytes, the   *)
(* least significant first; FNV_OFFSET_BASIS_64 is 0xcbf29ce484222325,     *)
(* FNV_PRIME_64 is 0x100000001b3 and FNV_MASK_64 is 0xffffffffffffffff.    *)
(***************************************************************************)
FNV_OFFSET_BASIS_64 == <<37, 35, 34, 132, 228, 156, 242, 203>>

FNV_PRIME_64 == <<179, 1, 0, 0, 0, 1, 0, 0>>

FNV_MASK_64 == <<255, 255, 255, 255, 255, 255, 255, 255>>

RECURSIVE bitXor(_, _)
bitXor(a, b) ==
    IF a = 0 THEN b
    ELSE IF b = 0 THEN a
    ELSE 2 * bitXor(a \div 2, b \div 2) + ((a + b) % 2)

RECURSIVE bitAnd(_, _)
bitAnd(a, b) ==
    IF a = 0 \/ b = 0 THEN 0
    ELSE 2 * bitAnd(a \div 2, b \div 2) + ((a % 2) * (b % 2))

\* n ^ BigInt(byte)
bigXorByte(n, byte) == <<bitXor(Head(n), byte)>> \o Tail(n)

\* the sum of the products a[i] * b[k - i + 1], which land on byte k of a * b,
\* for the indices from i on
RECURSIVE column(_, _, _, _)
column(a, b, k, i) ==
    IF i > Len(a) \/ i > k
    THEN 0
    ELSE a[i] * b[k - i + 1] + column(a, b, k, i + 1)

\* the bytes of a * b from byte k on, given the sum t that lands on byte k
RECURSIVE mulFrom(_, _, _, _)
mulFrom(a, b, k, t) ==
    IF k > Len(a) + Len(b)
    THEN << >>
    ELSE <<t % 256>>
         \o mulFrom(a, b, k + 1,
                    column(a, b, k + 1, IF k + 1 > Len(b) THEN k - Len(b) + 2 ELSE 1)
                    + (t \div 256))

\* a * b
bigMul(a, b) == mulFrom(a, b, 1, column(a, b, 1, 1))

\* a & mask
RECURSIVE bigAnd(_, _)
bigAnd(a, mask) ==
    IF a = << >> \/ mask = << >>
    THEN << >>
    ELSE <<bitAnd(Head(a), Head(mask))>> \o bigAnd(Tail(a), Tail(mask))

\* a faulty variant: the multiplication comes before the exclusive or
RECURSIVE fnvLoop_multiplyFirst(_, _)
fnvLoop_multiplyFirst(hash, bytes) ==
    IF hash = hash /\ bytes = << >>
    THEN hash
    ELSE fnvLoop_multiplyFirst(bigXorByte(bigAnd(bigMul(hash, FNV_PRIME_64), FNV_MASK_64),
                                          Head(bytes)),
                               Tail(bytes))

\* the loop of fnv1a64Hex; comparing hash with itself makes its evaluation
\* strict, as the assignment of the loop is
RECURSIVE fnvLoop(_, _)
fnvLoop(hash, data) ==
    IF hash = hash /\ data = << >>
    THEN hash
    ELSE fnvLoop(bigAnd(bigMul(bigXorByte(hash, Head(data)), FNV_PRIME_64), FNV_MASK_64),
                 Tail(data))

HexChars == <<"0", "1", "2", "3", "4", "5", "6", "7", "8", "9", "a", "b", "c", "d", "e", "f">>

\* the hexadecimal digits of n, the most significant first, leading zeros included
nibbles(n) ==
    [k \in 1..(2 * Len(n)) |->
        LET byte == n[Len(n) - ((k - 1) \div 2)]
        IN  IF k % 2 = 1 THEN byte \div 16 ELSE byte % 16]

RECURSIVE stripZeros(_)
stripZeros(d) == IF Len(d) > 1 /\ d[1] = 0 THEN stripZeros(Tail(d)) ELSE d

\* n.toString(16)
toString16(n) ==
    LET d == stripZeros(nibbles(n)) IN [i \in 1..Len(d) |-> HexChars[d[i] + 1]]

\* s.padStart(len, c)
RECURSIVE padStart(_, _, _)
padStart(s, len, c) == IF Len(s) >= len THEN s ELSE padStart(<<c>> \o s, len, c)

fnv1a64Hex(data) == padStart(toString16(fnvLoop(FNV_OFFSET_BASIS_64, data)), 16, "0")

(***************************************************************************)
(* TextEncoder.encode: the UTF-8 bytes of a string.  "U+00E9" and "U+0060" *)
(* stand for the one character of that code point.                         *)
(***************************************************************************)
Ascii ==
    <<" ", "!", "\"", "#", "$", "%", "&", "'", "(", ")", "*", "+", ",", "-", ".", "/",
      "0", "1", "2", "3", "4", "5", "6", "7", "8", "9", ":", ";", "<", "=", ">", "?",
      "@", "A", "B", "C", "D", "E", "F", "G", "H", "I", "J", "K", "L", "M", "N", "O",
      "P", "Q", "R", "S", "T", "U", "V", "W", "X", "Y", "Z", "[", "\\", "]", "^", "_",
      "U+0060", "a", "b", "c", "d", "e", "f", "g", "h", "i", "j", "k", "l", "m", "n", "o",
      "p", "q", "r", "s", "t", "u", "v", "w", "x", "y", "z", "{", "|", "}", "~">>

codePoint(c) ==
    CASE c = "U+00E9" -> 233
      [] c = "\t" -> 9
      [] c = "\n" -> 10
      [] c = "\f" -> 12
      [] c = "\r" -> 13
      [] OTHER -> 31 + CHOOSE i \in 1..Len(Ascii) : Ascii[i] = c

utf8(cp) ==
    IF cp < 128 THEN <<cp>>
    ELSE IF cp < 2048 THEN <<192 + (cp \div 64), 128 + (cp % 64)>>
    ELSE <<224 + (cp \div 4096), 128 + ((cp \div 64) % 64), 128 + (cp % 64)>>

RECURSIVE encode(_)
encode(s) == IF s = << >> THEN << >> ELSE utf8(codePoint(Head(s))) \o encode(Tail(s))

\* parts.join(sep)
RECURSIVE join(_, _)
join(parts, sep) ==
    IF parts = << >> THEN << >>
    ELSE IF Len(parts) = 1 THEN parts[1]
    ELSE parts[1] \o sep \o join(Tail(parts), sep)

(***************************************************************************)
(* utils.ts                                                                *)
(***************************************************************************)
\* a faulty variant: a value that is empty once trimmed is kept
safeTrim_keepsEmpty(v) ==
    IF ~v.some THEN Null ELSE Some(trim(v.val))

safeTrim(v) ==
    IF ~v.some
    THEN Null
    ELSE LET trimmed == trim(v.val)
         IN  IF trimmed = << >> THEN Null ELSE Some(trimmed)

\* a url is undefined, a string or a URL object (text is then its pathname);
\* a Request has a string for method and for url
isRequestLike(source) == source.method.some /\ source.url.kind = "string"

extractMethod(source) ==
    IF isRequestLike(source) THEN source.method ELSE source.method

hasPrefix(s, p) == Len(s) >= Len(p) /\ SubSeq(s, 1, Len(p)) = p

\* s up to its first "?" or "#"
withoutQuery(s) ==
    IF \E i \in 1..Len(s) : s[i] \in {"?", "#"}
    THEN SubSeq(s, 1, (CHOOSE i \in 1..Len(s) :
                          s[i] \in {"?", "#"} /\ \A j \in 1..(i - 1) : s[j] \notin {"?", "#"}) - 1)
    ELSE s

\* the pathname of what follows "//": the host must not be empty
afterAuthority(rest) ==
    LET i == indexOf(rest, "/")
    IN  IF i = 0 \/ rest = << >> THEN Null
        ELSE IF i = -1 THEN Some(<<"/">>)
        ELSE Some(slice(rest, i, Len(rest)))

\* new URL(s, 'http://localhost').pathname, Null when the constructor throws,
\* for the strings of the model: http(s) URLs, scheme-relative and relative
\* references without dot segments and without characters that get escaped
urlPathname(s) ==
    LET t == withoutQuery(s)
    IN  IF hasPrefix(t, <<"h", "t", "t", "p", ":", "/", "/">>)
        THEN afterAuthority(slice(t, 7, Len(t)))
        ELSE IF hasPrefix(t, <<"h", "t", "t", "p", "s", ":", "/", "/">>)
        THEN afterAuthority(slice(t, 8, Len(t)))
        ELSE IF hasPrefix(t, <<"/", "/">>)
        THEN afterAuthority(slice(t, 2, Len(t)))
        ELSE IF startsWith(t, "/") THEN Some(t)
        ELSE Some(<<"/">> \o t)

\* path.replace(/\d+/g, ':id')
RECURSIVE collapseIds(_)
collapseIds(path) ==
    IF path = << >> THEN << >>
    ELSE IF Head(path) \in Digits
         THEN <<":", "i", "d">> \o collapseIds(SubSeq(path, digitRun(path, 1) + 1, Len(path)))
         ELSE <<Head(path)>> \o collapseIds(Tail(path))

\* the path normalizers a caller passes: one replaces every run of digits,
\* one returns the empty string, one throws
applyNormalizer(normalizer, path) ==
    CASE normalizer = "collapseIds" -> [thrown |-> "none", val |-> collapseIds(path)]
      [] normalizer = "empty" -> [thrown |-> "none", val |-> << >>]
      [] normalizer = "throws" -> [thrown |-> "pathNormalizer error", val |-> << >>]

\* a faulty variant: an empty output of the normalizer is replaced by the path
extractPath_nonEmpty(urlValue, normalizer) ==
    IF urlValue.kind = "undefined"
    THEN [thrown |-> "none", path |-> Null, calls |-> << >>]
    ELSE LET path == IF urlValue.kind = "URL"
                     THEN Some(urlValue.text)
                     ELSE urlPathname(urlValue.text)
         IN  IF ~path.some
             THEN [thrown |-> "none", path |-> Null, calls |-> << >>]
             ELSE IF normalizer = "undefined"
                  THEN [thrown |-> "none", path |-> path, calls |-> << >>]
                  ELSE LET normalized == applyNormalizer(normalizer, path.val)
                       IN  [thrown |-> normalized.thrown,
                            path |-> IF normalized.thrown # "none" THEN Null
                                     ELSE IF normalized.val = << >> THEN path
                                     ELSE Some(normalized.val),
                            calls |-> <<"pathNormalizer">>]

\* a faulty variant: the normalizer is invoked on the path and on its own result
extractPath_twice(urlValue, normalizer) ==
    IF urlValue.kind = "undefined"
    THEN [thrown |-> "none", path |-> Null, calls |-> << >>]
    ELSE LET path == IF urlValue.kind = "URL"
                     THEN Some(urlValue.text)
                     ELSE urlPathname(urlValue.text)
         IN  IF ~path.some
             THEN [thrown |-> "none", path |-> Null, calls |-> << >>]
             ELSE IF normalizer = "undefined"
                  THEN [thrown |-> "none", path |-> path, calls |-> << >>]
                  ELSE LET normalized == applyNormalizer(normalizer, path.val)
                       IN  IF normalized.thrown # "none"
                           THEN [thrown |-> normalized.thrown, path |-> Null,
                                 calls |-> <<"pathNormalizer">>]
                           ELSE [thrown |-> "none",
                                 path |-> Some(applyNormalizer(normalizer, normalized.val).val),
                                 calls |-> <<"pathNormalizer", "pathNormalizer">>]

\* the path, the callbacks invoked on the way and the error a callback threw
extractPath(urlValue, normalizer) ==
    IF urlValue.kind = "undefined"
    THEN [thrown |-> "none", path |-> Null, calls |-> << >>]
    ELSE LET path == IF urlValue.kind = "URL"
                     THEN Some(urlValue.text)
                     ELSE urlPathname(urlValue.text)
         IN  IF ~path.some
             THEN [thrown |-> "none", path |-> Null, calls |-> << >>]
             ELSE IF normalizer = "undefined"
                  THEN [thrown |-> "none", path |-> path, calls |-> << >>]
                  ELSE LET normalized == applyNormalizer(normalizer, path.val)
                       IN  [thrown |-> normalized.thrown,
                            path |-> IF normalized.thrown = "none"
                                     THEN Some(normalized.val)
                                     ELSE Null,
                            calls |-> <<"pathNormalizer">>]

\* value ?? ''
orEmpty(v) == IF v.some THEN v.val ELSE << >>

\* a faulty variant: the number of calls so far is the first segment
buildParts_numbered(traits) ==
    LET segments == << <<"n", ":">> \o <<HexChars[fpCalls + 1]>>,
                       <<"i", "p", ":">> \o orEmpty(traits.ip),
                       <<"u", "a", ":">> \o orEmpty(traits.userAgent),
                       <<"a", "l", ":">> \o orEmpty(traits.acceptLanguage) >>
    IN  segments

\* a faulty variant: the method and the path are pushed without their label
buildParts_unlabelled(traits) ==
    LET segments == << <<"i", "p", ":">> \o orEmpty(traits.ip),
                       <<"u", "a", ":">> \o orEmpty(traits.userAgent),
                       <<"a", "l", ":">> \o orEmpty(traits.acceptLanguage) >>
        withMethod == IF traits.method.some THEN Append(segments, traits.method.val)
                      ELSE segments
    IN  IF traits.path.some THEN Append(withMethod, traits.path.val) ELSE withMethod

\* a faulty variant: an absent trait gives no segment
buildParts_dropAbsent(traits) ==
    (IF traits.ip.some THEN <<<<"i", "p", ":">> \o traits.ip.val>> ELSE << >>)
    \o (IF traits.userAgent.some THEN <<<<"u", "a", ":">> \o traits.userAgent.val>> ELSE << >>)
    \o (IF traits.acceptLanguage.some
        THEN <<<<"a", "l", ":">> \o traits.acceptLanguage.val>> ELSE << >>)
    \o (IF traits.method.some
        THEN <<<<"m", "e", "t", "h", "o", "d", ":">> \o traits.method.val>> ELSE << >>)
    \o (IF traits.path.some
        THEN <<<<"p", "a", "t", "h", ":">> \o traits.path.val>> ELSE << >>)

buildParts(traits) ==
    LET segments == << <<"i", "p", ":">> \o orEmpty(traits.ip),
                       <<"u", "a", ":">> \o orEmpty(traits.userAgent),
                       <<"a", "l", ":">> \o orEmpty(traits.acceptLanguage) >>
        withMethod == IF traits.method.some
                      THEN Append(segments, <<"m", "e", "t", "h", "o", "d", ":">> \o traits.method.val)
                      ELSE segments
    IN  IF traits.path.some
        THEN Append(withMethod, <<"p", "a", "t", "h", ":">> \o traits.path.val)
        ELSE withMethod

(***************************************************************************)
(* fingerprint.ts                                                          *)
(***************************************************************************)
\* a faulty variant: x-forwarded-for is consulted before the platform headers
DEFAULT_IP_HEADERS_xffFirst ==
    << <<"x", "-", "f", "o", "r", "w", "a", "r", "d", "e", "d", "-", "f", "o", "r">>,
       <<"c", "f", "-", "c", "o", "n", "n", "e", "c", "t", "i", "n", "g", "-", "i", "p">>,
       <<"f", "a", "s", "t", "l", "y", "-", "c", "l", "i", "e", "n", "t", "-", "i", "p">>,
       <<"f", "l", "y", "-", "c", "l", "i", "e", "n", "t", "-", "i", "p">>,
       <<"t", "r", "u", "e", "-", "c", "l", "i", "e", "n", "t", "-", "i", "p">>,
       <<"f", "o", "r", "w", "a", "r", "d", "e", "d">>,
       <<"x", "-", "r", "e", "a", "l", "-", "i", "p">> >>

DEFAULT_IP_HEADERS ==
    << <<"c", "f", "-", "c", "o", "n", "n", "e", "c", "t", "i", "n", "g", "-", "i", "p">>,
       <<"f", "a", "s", "t", "l", "y", "-", "c", "l", "i", "e", "n", "t", "-", "i", "p">>,
       <<"f", "l", "y", "-", "c", "l", "i", "e", "n", "t", "-", "i", "p">>,
       <<"t", "r", "u", "e", "-", "c", "l", "i", "e", "n", "t", "-", "i", "p">>,
       <<"f", "o", "r", "w", "a", "r", "d", "e", "d">>,
       <<"x", "-", "f", "o", "r", "w", "a", "r", "d", "e", "d", "-", "f", "o", "r">>,
       <<"x", "-", "r", "e", "a", "l", "-", "i", "p">> >>

USER_AGENT == <<"u", "s", "e", "r", "-", "a", "g", "e", "n", "t">>
ACCEPT_LANGUAGE == <<"a", "c", "c", "e", "p", "t", "-", "l", "a", "n", "g", "u", "a", "g", "e">>

\* the hash function a caller passes: every byte as two hexadecimal digits
RECURSIVE hexDump(_)
hexDump(data) ==
    IF data = << >>
    THEN << >>
    ELSE <<HexChars[(Head(data) \div 16) + 1], HexChars[(Head(data) % 16) + 1]>>
         \o hexDump(Tail(data))

\* a faulty variant: without a hash function in the options the payload is
\* returned as hexadecimal digits, unhashed
hashWith_neverDefault(hashFn, payload) ==
    IF hashFn = "throws"
    THEN [thrown |-> "hashFn error", hash |-> << >>, calls |-> <<"hashFn">>]
    ELSE [thrown |-> "none", hash |-> hexDump(payload),
          calls |-> IF hashFn = "undefined" THEN <<"fnv1a64Hex">> ELSE <<"hashFn">>]

\* (options?.hashFn ?? fnv1a64Hex)(payload), the function that was invoked and
\* the error it threw; the hash functions a caller passes are hexDump and one
\* that throws
hashWith(hashFn, payload) ==
    IF hashFn = "undefined"
    THEN [thrown |-> "none", hash |-> fnv1a64Hex(payload), calls |-> <<"fnv1a64Hex">>]
    ELSE IF hashFn = "throws"
         THEN [thrown |-> "hashFn error", hash |-> << >>, calls |-> <<"hashFn">>]
         ELSE [thrown |-> "none", hash |-> hexDump(payload), calls |-> <<"hashFn">>]

\* a faulty variant: the method is left out only when the flag is false
methodIncluded_unlessFalse(options) == options.includeMethod # "false"

\* options?.includeMethod === true
methodIncluded(options) == options.includeMethod = "true"

\* a faulty variant: the path is left out only when the flag is false
pathIncluded_unlessFalse(options) == options.includePath # "false"

\* options?.includePath === true
pathIncluded(options) == options.includePath = "true"

\* a faulty variant: an empty list falls back to the default list as well
precedenceOf_orDefault(options) ==
    IF options.ipHeaders.some /\ options.ipHeaders.val # << >>
    THEN options.ipHeaders.val
    ELSE DEFAULT_IP_HEADERS

\* a faulty variant: X-Forwarded-For is consulted after the list of the options
precedenceOf_thenForwardedFor(options) ==
    (IF options.ipHeaders.some THEN options.ipHeaders.val ELSE DEFAULT_IP_HEADERS)
    \o <<X_FORWARDED_FOR>>

\* options?.ipHeaders ?? DEFAULT_IP_HEADERS
precedenceOf(options) ==
    IF options.ipHeaders.some THEN options.ipHeaders.val ELSE DEFAULT_IP_HEADERS

NoTraits ==
    [ip |-> Null, userAgent |-> Null, acceptLanguage |-> Null, method |-> Null, path |-> Null]

\* a faulty variant: the error is caught and an empty result is returned
Threw_swallowed(e, calls) ==
    [thrown |-> "none", hash |-> << >>, parts |-> << >>, traits |-> NoTraits, calls |-> calls]

\* a call of fingerprint that ends with the error e: there is no result
Threw(e, calls) ==
    [thrown |-> e, hash |-> << >>, parts |-> << >>, traits |-> NoTraits, calls |-> calls]

\* the result of fingerprint, the callbacks and the hash function it invoked
\* in the order of the invocations, and the error that ended the call if any;
\* the traits are evaluated in the order ip, userAgent, acceptLanguage,
\* method, path
fingerprint(source, options) ==
    LET ipHeaders == precedenceOf(options)
        extracted == IF pathIncluded(options)
                     THEN extractPath(source.url, options.pathNormalizer)
                     ELSE [thrown |-> "none", path |-> Null, calls |-> << >>]
        traits == [ip |-> extractClientIp(source.headers, ipHeaders),
                   userAgent |-> safeTrim(HeadersGet(source.headers, USER_AGENT)),
                   acceptLanguage |-> safeTrim(HeadersGet(source.headers, ACCEPT_LANGUAGE)),
                   method |-> IF methodIncluded(options)
                              THEN extractMethod(source)
                              ELSE Null,
                   path |-> extracted.path]
        parts == buildParts(traits)
        payload == encode(join(parts, <<"|">>))
        hashed == hashWith(options.hashFn, payload)
    IN  IF extractClientIpThrows(source.headers, ipHeaders)
        THEN Threw("TypeError", << >>)
        ELSE IF extracted.thrown # "none"
        THEN Threw(extracted.thrown, extracted.calls)
        ELSE IF hashed.thrown # "none"
        THEN Threw(hashed.thrown, extracted.calls \o hashed.calls)
        ELSE [thrown |-> "none",
              hash |-> hashed.hash,
              parts |-> parts,
              traits |-> traits,
              calls |-> extracted.calls \o hashed.calls]

(***************************************************************************)
(* The inputs of the calls.  A candidate is a core, the concatenation of   *)
(* at most MaxFrag fragments, in one of the syntactic forms a header value *)
(* takes (bare, quoted, bracketed, with a port after the bracket, ...).    *)
(***************************************************************************)
CoreFrags ==
    { <<"1", ".", "2", ".", "3", ".", "4">>,
      <<":", "8", "0">>,
      <<":">>,
      <<":", ":", "f", "f", "f", "f", ":">>,
      <<"_">>,
      <<"u", "n", "k", "n", "o", "w", "n">>,
      <<"N", "o", "n", "e">>,
      <<" ">> }

RECURSIVE Cores(_)
Cores(n) ==
    IF n = 0
    THEN {<< >>}
    ELSE LET shorter == Cores(n - 1)
         IN  shorter \cup {c \o f : c \in shorter, f \in CoreFrags}

Forms == {"bare", "quoted", "doubleQuoted", "halfQuoted", "bracketed", "bracketedPort",
          "quotedBracketedPort", "unclosed"}

Wrap(form, c) ==
    CASE form = "bare" -> c
      [] form = "quoted" -> <<"\"">> \o c \o <<"\"">>
      [] form = "doubleQuoted" -> <<"\"", "\"">> \o c \o <<"\"", "\"">>
      [] form = "halfQuoted" -> <<"\"">> \o c
      [] form = "bracketed" -> <<"[">> \o c \o <<"]">>
      [] form = "bracketedPort" -> <<"[">> \o c \o <<"]", ":", "8", "0">>
      [] form = "quotedBracketedPort" ->
             <<"\"", "[">> \o c \o <<"]", ":", "8", "0", "\"">>
      [] form = "unclosed" -> <<"[">> \o c

Cands == {Wrap(form, c) : form \in Forms, c \in Cores(MaxFrag)}

X_REAL_IP == <<"x", "-", "r", "e", "a", "l", "-", "i", "p">>
FLY_CLIENT_IP == <<"f", "l", "y", "-", "c", "l", "i", "e", "n", "t", "-", "i", "p">>

\* the shapes of a request that carries one header built on a candidate
Shapes == {"plain", "xff", "xffList", "for", "forList", "byFor", "forFor"}

SingleHeaderName(shape) ==
    CASE shape = "plain" -> X_REAL_IP
      [] shape \in {"xff", "xffList"} -> X_FORWARDED_FOR
      [] OTHER -> FORWARDED

SingleHeaderValue(shape, c) ==
    CASE shape \in {"plain", "xff"} -> c
      [] shape = "xffList" ->
             c \o <<",", " ", "1", "9", "8", ".", "5", "1", ".", "1", "0", "0", ".", "9">>
      [] shape = "for" -> <<"f", "o", "r", "=">> \o c
      [] shape = "forList" ->
             <<"f", "o", "r", "=">> \o c
                 \o <<";", "p", "r", "o", "t", "o", "=", "h", "t", "t", "p", "s", ",", " ",
                      "f", "o", "r", "=", "5", ".", "6", ".", "7", ".", "8">>
      [] shape = "byFor" ->
             <<"b", "y", "=", "9", ".", "9", ".", "9", ".", "9", ";", " ",
               "F", "o", "r", " ", "=", " ">> \o c
      [] shape = "forFor" ->
             <<"f", "o", "r", "=">> \o c
                 \o <<";", "f", "o", "r", "=", "5", ".", "6", ".", "7", ".", "8">>

\* the values the headers of a request with several headers take
FlyValues ==
    { <<"2", "0", "3", ".", "0", ".", "1", "1", "3", ".", "5">>,
      <<"u", "n", "k", "n", "o", "w", "n">> }

SeveralForwardedValues ==
    { <<"f", "o", "r", "=", "u", "n", "k", "n", "o", "w", "n">>,
      <<"f", "o", "r", "=", "1", "9", "2", ".", "0", ".", "2", ".", "6", "0", ";",
        "p", "r", "o", "t", "o", "=", "h", "t", "t", "p">>,
      <<"p", "r", "o", "t", "o", "=", "h", "t", "t", "p", "s">> }

SeveralXffValues ==
    { <<"1", "9", "8", ".", "5", "1", ".", "1", "0", "0", ".", "8", ",", " ",
        "1", "9", "8", ".", "5", "1", ".", "1", "0", "0", ".", "9">>,
      <<" ", ",", " ", "1", "9", "8", ".", "5", "1", ".", "1", "0", "0", ".", "9">> }

NoHeaders == [n \in {} |-> << >>]

\* the Headers object with the header name set when v is present
WithHeader(h, name, v) == IF v.some THEN (name :> v.val) @@ h ELSE h

Opt(S) == {Null} \cup {Some(s) : s \in S}

SeveralHeaderSets ==
    { WithHeader(WithHeader(WithHeader(NoHeaders, FLY_CLIENT_IP, a), FORWARDED, b),
                 X_FORWARDED_FOR, c)
        : a \in Opt(FlyValues), b \in Opt(SeveralForwardedValues),
          c \in Opt(SeveralXffValues) }

PrecedenceNames == {FLY_CLIENT_IP, FORWARDED, X_FORWARDED_FOR}

\* precedence lists whose entries are not spelled in lower case
ListsInOtherCase ==
    { << <<"F", "o", "r", "w", "a", "r", "d", "e", "d">> >>,
      << <<"F", "O", "R", "W", "A", "R", "D", "E", "D">> >>,
      << <<"X", "-", "F", "o", "r", "w", "a", "r", "d", "e", "d", "-", "F", "o", "r">> >>,
      << <<"F", "l", "y", "-", "C", "l", "i", "e", "n", "t", "-", "I", "P">>,
         <<"F", "o", "r", "w", "a", "r", "d", "e", "d">> >> }

\* precedence lists with an entry that is not a header name
ListsWithInvalidName ==
    { << << >> >>,
      << <<"x", " ", "r", "e", "a", "l", " ", "i", "p">> >>,
      << <<"x", " ", "r", "e", "a", "l", " ", "i", "p">>, FLY_CLIENT_IP >>,
      << FLY_CLIENT_IP, <<"x", " ", "r", "e", "a", "l", " ", "i", "p">> >> }

RECURSIVE PrecedenceLists(_)
PrecedenceLists(n) ==
    IF n = 0
    THEN {<< >>}
    ELSE LET shorter == PrecedenceLists(n - 1)
         IN  shorter \cup {Append(p, name) : p \in shorter, name \in PrecedenceNames}

(***************************************************************************)
(* The inputs of buildParts, of fingerprint and of fnv1a64Hex.             *)
(***************************************************************************)
NoUrl == [kind |-> "undefined", text |-> << >>]

NoOptions ==
    [ipHeaders |-> Null, includeMethod |-> "undefined", includePath |-> "undefined",
     pathNormalizer |-> "undefined", hashFn |-> "undefined"]

\* the values of a trait handed to buildParts
TraitValues ==
    { << >>, <<"a">>, <<"p", "a", "t", "h", ":", "b">>,
      <<"x", "|", "p", "a", "t", "h", ":", "b">> }

\* the requests handed to fingerprint
FpIpHeaders ==
    { NoHeaders,
      (FLY_CLIENT_IP :> <<"2", "0", "3", ".", "0", ".", "1", "1", "3", ".", "5">>)
          @@ (X_FORWARDED_FOR :> <<"1", "9", "8", ".", "5", "1", ".", "1", "0", "0", ".", "8", ",", " ", "1", "9", "8", ".", "5", "1", ".", "1", "0", "0", ".", "9">>) }

FpUserAgents == { <<"c", "u", "r", "l", "/", "8">>, <<" ", " ">>, <<" ", "U+00E9", " ">> }

FpLanguages == { <<"e", "n">> }

\* Accept-Language values with whitespace around them or nothing else
FpPaddedLanguages == { <<" ", "e", "n", " ">>, <<" ", " ">> }

FpHeaders ==
    { WithHeader(WithHeader(h, USER_AGENT, Some(ua)), ACCEPT_LANGUAGE, al)
        : h \in FpIpHeaders, ua \in FpUserAgents, al \in Opt(FpLanguages) }
    \cup { (ACCEPT_LANGUAGE :> al) : al \in FpPaddedLanguages }

FpMethods == { <<"P", "O", "S", "T">> }

FpUrls ==
    { NoUrl,
      [kind |-> "string", text |-> <<"/", "u", "/", "1", "2", "?", "x", "=", "1">>],
      [kind |-> "string", text |-> <<"h", "t", "t", "p", ":", "/", "/">>],
      [kind |-> "string", text |-> <<"/", "/">>],
      [kind |-> "URL", text |-> <<"/", "v", "1">>] }

\* the options handed to fingerprint: the flags and the path normalizer in
\* every combination, with the default hash function or with a precedence list
\* and a hash function of the caller, and the combinations of flags set to
\* false with callbacks that return the empty string or throw; an empty
\* precedence list and one that names a single header; a precedence list with
\* an entry that is not a header name
FpOptions ==
    [ipHeaders : {Null},
     includeMethod : {"undefined", "true"},
     includePath : {"undefined", "true"},
     pathNormalizer : {"undefined"},
     hashFn : {"undefined"}]
    \cup
    [ipHeaders : {Null},
     includeMethod : {"true"},
     includePath : {"true"},
     pathNormalizer : {"collapseIds"},
     hashFn : {"undefined"}]
    \cup
    [ipHeaders : {Null, Some(<<X_FORWARDED_FOR, FLY_CLIENT_IP>>)},
     includeMethod : {"undefined", "true"},
     includePath : {"undefined", "true"},
     pathNormalizer : {"undefined", "collapseIds"},
     hashFn : {"hexDump"}]
    \cup
    [ipHeaders : {Some(<< >>), Some(<<FLY_CLIENT_IP>>)},
     includeMethod : {"undefined"},
     includePath : {"undefined", "true"},
     pathNormalizer : {"undefined"},
     hashFn : {"hexDump"}]
    \cup
    [ipHeaders : {Null},
     includeMethod : {"false", "true"},
     includePath : {"false", "true"},
     pathNormalizer : {"empty", "throws"},
     hashFn : {"hexDump", "throws"}]
    \cup
    [ipHeaders : {Some(<< <<"x", " ", "r", "e", "a", "l", " ", "i", "p">> >>)},
     includeMethod : {"undefined"},
     includePath : {"true"},
     pathNormalizer : {"collapseIds"},
     hashFn : {"hexDump"}]

\* the bytes handed to fnv1a64Hex: every sequence of at most MaxBytes of a few
\* byte values, and the UTF-8 bytes of "hello"
ByteValues == {0, 1, 97, 128, 179, 255}

RECURSIVE ByteSeqs(_)
ByteSeqs(n) ==
    IF n = 0
    THEN {<< >>}
    ELSE LET shorter == ByteSeqs(n - 1)
         IN  shorter \cup {Append(b, v) : b \in shorter, v \in ByteValues}

HashInputs == ByteSeqs(MaxBytes) \cup {encode(<<"h", "e", "l", "l", "o">>)}

\* the sources and the options of the fingerprint calls of a history
DetSources ==
    { [headers |-> (FLY_CLIENT_IP :> <<"2", "0", "3", ".", "0", ".", "1", "1", "3", ".", "5">>)
                       @@ (USER_AGENT :> <<"c", "u", "r", "l", "/", "8">>),
       method |-> Some(<<"P", "O", "S", "T">>),
       url |-> [kind |-> "string", text |-> <<"/", "u", "/", "1", "2", "?", "x", "=", "1">>]],
      [headers |-> (USER_AGENT :> <<"c", "u", "r", "l", "/", "8">>),
       method |-> Null,
       url |-> NoUrl] }

DetOptions ==
    { NoOptions,
      [ipHeaders |-> Null, includeMethod |-> "true", includePath |-> "true",
       pathNormalizer |-> "collapseIds", hashFn |-> "undefined"],
      [ipHeaders |-> Some(<<X_FORWARDED_FOR, FLY_CLIENT_IP>>), includeMethod |-> "true",
       includePath |-> "true", pathNormalizer |-> "throws", hashFn |-> "hexDump"] }

DetInputs == [source : DetSources, options : DetOptions]

\* no call is remembered
NoMemo ==
    [set |-> FALSE, source |-> [headers |-> NoHeaders, method |-> Null, url |-> NoUrl],
     options |-> NoOptions, result |-> Threw("none", << >>)]

(***************************************************************************)
(* The state machine: one call at a time.                                  *)
(***************************************************************************)
Init ==
    /\ op = "idle"
    /\ value = Null
    /\ headers = NoHeaders
    /\ precedence = << >>
    /\ ret = Null
    /\ srcMethod = Null
    /\ srcUrl = NoUrl
    /\ opts = NoOptions
    /\ resTraits = NoTraits
    /\ resParts = << >>
    /\ resHash = << >>
    /\ resCalls = << >>
    /\ thrown = "none"
    /\ hashData = << >>
    /\ memo = NoMemo
    /\ fpCalls = 0
    /\ defaultIpHeaders = DEFAULT_IP_HEADERS
    /\ invalidIpTokens = INVALID_IP_TOKENS

CallNormalizeIpCandidate ==
    /\ op = "idle"
    /\ \E v \in Opt(Cands) :
          /\ value' = v
          /\ ret' = normalizeIpCandidate(v)
    /\ op' = "normalizeIpCandidate"
    /\ UNCHANGED <<headers, precedence, thrown, hashData, fpVars, detVars, constVars>>

CallExtractClientIp ==
    /\ op = "idle"
    /\ \/ \E shape \in Shapes, c \in Cands :
             LET name == SingleHeaderName(shape)
                 h == (name :> SingleHeaderValue(shape, c))
             IN  /\ headers' = h
                 /\ precedence' = <<name>>
                 /\ ret' = extractClientIp(h, <<name>>)
                 /\ thrown' = "none"
       \/ \E h \in SeveralHeaderSets,
             p \in PrecedenceLists(MaxPrec) \cup ListsInOtherCase \cup ListsWithInvalidName :
             /\ headers' = h
             /\ precedence' = p
             /\ IF extractClientIpThrows(h, p)
                THEN ret' = Null /\ thrown' = "TypeError"
                ELSE ret' = extractClientIp(h, p) /\ thrown' = "none"
    /\ op' = "extractClientIp"
    /\ UNCHANGED <<value, hashData, fpVars, detVars, constVars>>

CallBuildParts ==
    /\ op = "idle"
    /\ \E t \in [ip : Opt(TraitValues), userAgent : Opt(TraitValues),
                 acceptLanguage : Opt(TraitValues), method : Opt(TraitValues),
                 path : Opt(TraitValues)] :
          /\ resTraits' = t
          /\ resParts' = buildParts(t)
    /\ op' = "buildParts"
    /\ UNCHANGED <<headers, thrown, hashData, ipVars, srcMethod, srcUrl, opts, resHash,
                   resCalls, detVars, constVars>>

CallFingerprint ==
    /\ op = "idle"
    /\ \E h \in FpHeaders, m \in Opt(FpMethods), u \in FpUrls, o \in FpOptions :
          \E result \in {fingerprint([headers |-> h, method |-> m, url |-> u], o)} :
              /\ headers' = h
              /\ srcMethod' = m
              /\ srcUrl' = u
              /\ opts' = o
              /\ resTraits' = result.traits
              /\ resParts' = result.parts
              /\ resHash' = result.hash
              /\ resCalls' = result.calls
              /\ thrown' = result.thrown
    /\ op' = "fingerprint"
    /\ UNCHANGED <<hashData, ipVars, detVars, constVars>>

\* a faulty variant: the loop over the precedence list takes the entries off
\* the list, the default list included
CallFingerprintAgain_shiftsList ==
    /\ op = "idle"
    /\ \E i \in DetInputs :
          \E result \in {fingerprint(i.source, i.options)} :
              /\ headers' = i.source.headers
              /\ srcMethod' = i.source.method
              /\ srcUrl' = i.source.url
              /\ opts' = i.options
              /\ resTraits' = result.traits
              /\ resParts' = result.parts
              /\ resHash' = result.hash
              /\ resCalls' = result.calls
              /\ thrown' = result.thrown
              /\ memo' = IF memo.set
                         THEN memo
                         ELSE [set |-> TRUE, source |-> i.source, options |-> i.options,
                               result |-> result]
              /\ defaultIpHeaders' = IF i.options.ipHeaders.some \/ defaultIpHeaders = << >>
                                     THEN defaultIpHeaders
                                     ELSE Tail(defaultIpHeaders)
    /\ fpCalls' = IF fpCalls < MaxCalls THEN fpCalls + 1 ELSE fpCalls
    /\ op' = "fingerprint"
    /\ UNCHANGED <<hashData, ipVars, invalidIpTokens>>

\* a call of fingerprint in a history of calls: the first call is remembered
CallFingerprintAgain ==
    /\ op = "idle"
    /\ \E i \in DetInputs :
          \E result \in {fingerprint(i.source, i.options)} :
              /\ headers' = i.source.headers
              /\ srcMethod' = i.source.method
              /\ srcUrl' = i.source.url
              /\ opts' = i.options
              /\ resTraits' = result.traits
              /\ resParts' = result.parts
              /\ resHash' = result.hash
              /\ resCalls' = result.calls
              /\ thrown' = result.thrown
              /\ memo' = IF memo.set
                         THEN memo
                         ELSE [set |-> TRUE, source |-> i.source, options |-> i.options,
                               result |-> result]
    /\ fpCalls' = IF fpCalls < MaxCalls THEN fpCalls + 1 ELSE fpCalls
    /\ op' = "fingerprint"
    /\ UNCHANGED <<hashData, ipVars, constVars>>

CallFnv1a64Hex ==
    /\ op = "idle"
    /\ \E d \in HashInputs :
          /\ hashData' = d
          /\ resHash' = fnv1a64Hex(d)
    /\ op' = "fnv1a64Hex"
    /\ UNCHANGED <<headers, thrown, ipVars, srcMethod, srcUrl, opts, resTraits, resParts,
                   resCalls, detVars, constVars>>

Return ==
    /\ op # "idle"
    /\ op' = "idle"
    /\ value' = Null
    /\ headers' = NoHeaders
    /\ precedence' = << >>
    /\ ret' = Null
    /\ srcMethod' = Null
    /\ srcUrl' = NoUrl
    /\ opts' = NoOptions
    /\ resTraits' = NoTraits
    /\ resParts' = << >>
    /\ resHash' = << >>
    /\ resCalls' = << >>
    /\ thrown' = "none"
    /\ hashData' = << >>
    /\ UNCHANGED <<detVars, constVars>>

\* the IP resolver
Next ==
    \/ CallNormalizeIpCandidate
    \/ CallExtractClientIp
    \/ Return

Spec == Init /\ [][Next]_vars

\* the fingerprint
NextFp ==
    \/ CallBuildParts
    \/ CallFingerprint
    \/ Return

SpecFp == Init /\ [][NextFp]_vars

\* the hash function
NextHash ==
    \/ CallFnv1a64Hex
    \/ Return

SpecHash == Init /\ [][NextHash]_vars

\* fingerprint calls with other calls in between
NextDet ==
    \/ CallFingerprintAgain
    \/ CallFnv1a64Hex
    \/ Return

SpecDet == Init /\ [][NextDet]_vars

(***************************************************************************)
(* Properties of the IP resolver.  The definitions below state what a      *)
(* claim speaks of (the first entry of a list, the text between brackets,  *)
(* the shape "IPv4:port", ...) directly on the characters of the input.    *)
(***************************************************************************)
Min(S) == CHOOSE x \in S : \A y \in S : x <= y

\* the call f of the state returned: it did not throw
Returned(f) == op = f /\ thrown = "none"

\* the request of the state carries the header name and lists only it
OnlyListed(name) == op = "extractClientIp" /\ precedence = <<name>> /\ name \in DOMAIN headers

\* i is the first position of the precedence list whose header gives a valid candidate
FirstValidAt(h, prec, i) ==
    /\ headerIp(h, prec[i]).some
    /\ \A j \in 1..(i - 1) : ~headerIp(h, prec[j]).some

AgreeUpTo(h1, h2, prec, i) ==
    \A j \in 1..i : HeadersGet(h1, prec[j]) = HeadersGet(h2, prec[j])

\* C1: extractClientIp returns the normalized candidate of the earliest listed
\* header that has one, and the headers listed after it do not change the result.
C1_FirstMatchWins ==
    Returned("extractClientIp") =>
        /\ (\A i \in 1..Len(precedence) : ~headerIp(headers, precedence[i]).some)
               => ret = Null
        /\ \A i \in 1..Len(precedence) :
               FirstValidAt(headers, precedence, i) =>
                   /\ ret = headerIp(headers, precedence[i])
                   /\ (Len(precedence) >= 2 =>
                          \A h2 \in SeveralHeaderSets :
                              AgreeUpTo(headers, h2, precedence, i)
                                  => extractClientIp(h2, precedence) = ret)

C1_Witness ==
    /\ op = "extractClientIp"
    /\ precedence = <<X_FORWARDED_FOR, FLY_CLIENT_IP>>
    /\ HeadersGet(headers, FLY_CLIENT_IP)
           = Some(<<"2", "0", "3", ".", "0", ".", "1", "1", "3", ".", "5">>)
    /\ HeadersGet(headers, X_FORWARDED_FOR)
           = Some(<<"1", "9", "8", ".", "5", "1", ".", "1", "0", "0", ".", "8", ",", " ",
                    "1", "9", "8", ".", "5", "1", ".", "1", "0", "0", ".", "9">>)
    /\ ret = Some(<<"1", "9", "8", ".", "5", "1", ".", "1", "0", "0", ".", "8">>)

\* C2: a listed header that is present with an invalid candidate does not end
\* the scan; the result is absent exactly when no listed header has a valid one.
C2_InvalidFallsThrough ==
    Returned("extractClientIp") =>
        /\ ret.some <=> \E i \in 1..Len(precedence) : headerIp(headers, precedence[i]).some
        /\ \A i \in 1..Len(precedence) : \A j \in (i + 1)..Len(precedence) :
              ( /\ HeadersGet(headers, precedence[i]).some
                /\ \A k \in 1..(j - 1) : ~headerIp(headers, precedence[k]).some
                /\ headerIp(headers, precedence[j]).some )
              => ret = headerIp(headers, precedence[j])

C2_Witness ==
    /\ op = "extractClientIp"
    /\ precedence = <<FORWARDED, X_FORWARDED_FOR>>
    /\ HeadersGet(headers, FORWARDED)
           = Some(<<"f", "o", "r", "=", "u", "n", "k", "n", "o", "w", "n">>)
    /\ HeadersGet(headers, X_FORWARDED_FOR).some
    /\ ret = Some(<<"1", "9", "8", ".", "5", "1", ".", "1", "0", "0", ".", "8">>)

\* C3: a value returned by extractClientIp never starts with "_".
C3_NeverObfuscated ==
    (op = "extractClientIp" /\ ret.some) => ~startsWith(ret.val, "_")

AllDigits(s) == s # << >> /\ \A i \in 1..Len(s) : s[i] \in Digits

IsDottedQuad(a) ==
    LET octets == split(a, ".")
    IN  Len(octets) = 4 /\ \A k \in 1..4 : AllDigits(octets[k]) /\ Len(octets[k]) <= 3

\* IPv4 dotted quad, one colon, one or more digits
IsIPv4WithPort(t) ==
    \E k \in 1..Len(t) :
        /\ t[k] = ":"
        /\ \A j \in 1..Len(t) : t[j] = ":" => j = k
        /\ IsDottedQuad(SubSeq(t, 1, k - 1))
        /\ AllDigits(SubSeq(t, k + 1, Len(t)))

\* t without the part from its last colon on
BeforeLastColon(t) ==
    SubSeq(t, 1, Min({k \in 1..Len(t) : t[k] = ":" /\ \A j \in (k + 1)..Len(t) : t[j] # ":"}) - 1)

PlaceholderTokens ==
    { <<"u", "n", "k", "n", "o", "w", "n">>, <<"n", "u", "l", "l">>, <<"n", "o", "n", "e">> }

IsPlaceholder(t) ==
    LET x == toLowerCase(trim(t)) IN x = << >> \/ x \in PlaceholderTokens

\* a trimmed candidate that is neither rejected nor bracketed
PlainValid(t) == ~IsPlaceholder(t) /\ ~startsWith(t, "_") /\ ~startsWith(t, "[")

\* a for= value without one pair of enclosing double quotes
Unquoted(x) ==
    IF Len(x) >= 2 /\ x[1] = "\"" /\ x[Len(x)] = "\"" THEN SubSeq(x, 2, Len(x) - 1) ELSE x

\* the header value v is "for=" followed by one value without , ; or =
IsSingleFor(v) ==
    /\ Len(v) >= 4
    /\ SubSeq(v, 1, 4) = <<"f", "o", "r", "=">>
    /\ \A i \in 5..Len(v) : v[i] \notin {",", ";", "="}

\* the prefix of v before its first comma, all of v when it has none
FirstEntry(v) ==
    IF \E k \in 1..Len(v) : v[k] = ","
    THEN SubSeq(v, 1, Min({k \in 1..Len(v) : v[k] = ","}) - 1)
    ELSE v

\* the candidates of the requests that carry one header
PlainCandidate == trim(headers[X_REAL_IP])
XffCandidate == trim(FirstEntry(headers[X_FORWARDED_FOR]))
ForCandidate == trim(Unquoted(trim(SubSeq(headers[FORWARDED], 5, Len(headers[FORWARDED])))))

C4Expected(t) == IF IsIPv4WithPort(t) THEN Some(BeforeLastColon(t)) ELSE Some(t)

\* C4: a valid candidate that is not bracketed loses its port exactly when it
\* has the shape IPv4:port, and is returned unchanged otherwise.
C4_PortOnlyFromIPv4WithPort ==
    /\ (op = "normalizeIpCandidate" /\ value.some /\ PlainValid(trim(value.val)))
          => ret = C4Expected(trim(value.val))
    /\ (OnlyListed(X_REAL_IP) /\ PlainValid(PlainCandidate))
          => ret = C4Expected(PlainCandidate)
    /\ (OnlyListed(X_FORWARDED_FOR) /\ PlainValid(XffCandidate))
          => ret = C4Expected(XffCandidate)
    /\ (OnlyListed(FORWARDED) /\ IsSingleFor(headers[FORWARDED]) /\ PlainValid(ForCandidate))
          => ret = C4Expected(ForCandidate)

C4_Witness ==
    /\ OnlyListed(X_REAL_IP)
    /\ headers[X_REAL_IP] = <<"1", ".", "2", ".", "3", ".", "4", ":", "8", "0">>
    /\ ret = Some(<<"1", ".", "2", ".", "3", ".", "4">>)

\* the first "]" of t is after at least one character of content
HasClosing(t) ==
    \E k \in 3..Len(t) : t[k] = "]" /\ \A j \in 1..(k - 1) : t[j] # "]"

\* the text strictly between the "[" that starts t and the first "]"
Between(t) == SubSeq(t, 2, Min({k \in 1..Len(t) : t[k] = "]"}) - 1)

C5Expected(t) == IF HasClosing(t) THEN Some(Between(t)) ELSE Null

C6_FirstHopOnly ==
    OnlyListed(X_FORWARDED_FOR) => ret = normalizeIpCandidate(Some(XffCandidate))

C6_Witness ==
    /\ OnlyListed(X_FORWARDED_FOR)
    /\ headers[X_FORWARDED_FOR]
           = <<"u", "n", "k", "n", "o", "w", "n", ",", " ",
               "1", "9", "8", ".", "5", "1", ".", "1", "0", "0", ".", "9">>
    /\ ret = Null

RECURSIVE Flatten(_)
Flatten(ss) == IF ss = << >> THEN << >> ELSE Head(ss) \o Flatten(Tail(ss))

\* the directives of a Forwarded value, group after group
Directives(v) ==
    LET groups == split(v, ",")
    IN  Flatten([i \in 1..Len(groups) |-> split(trim(groups[i]), ";")])

IsFor(d) == includes(d, "=") /\ toLowerCase(trim(split(d, "=")[1])) = <<"f", "o", "r">>

\* the values of the for= directives of a Forwarded value, in order
ForValues(v) ==
    LET fors == SelectSeq(Directives(v), IsFor)
    IN  [i \in 1..Len(fors) |-> trim(split(fors[i], "=")[2])]

Resolved(x) == normalizeIpCandidate(cleanForwardedIdentifier(x))

Usable(x) ==
    LET u == trim(Unquoted(x))
    IN  u # << >> /\ (startsWith(u, "[") => HasClosing(u))

CarriesOnlyPlaceholder(h, name) ==
    IF name = FORWARDED
    THEN IsSingleFor(h[name]) /\ IsPlaceholder(Unquoted(trim(SubSeq(h[name], 5, Len(h[name])))))
    ELSE IsPlaceholder(h[name])

WithoutPlaceholders(h) ==
    [name \in {n \in DOMAIN h : ~CarriesOnlyPlaceholder(h, n)} |-> h[name]]

\* C8: a candidate that is empty or a placeholder token, in any letter case, is
\* rejected, and a header that carries only such a token contributes no IP.
C8_PlaceholdersRejected ==
    /\ (op = "normalizeIpCandidate" /\ value.some /\ IsPlaceholder(value.val)) => ret = Null
    /\ \A name \in {X_REAL_IP, X_FORWARDED_FOR, FORWARDED} :
          (OnlyListed(name) /\ CarriesOnlyPlaceholder(headers, name)) => ret = Null
    /\ Returned("extractClientIp") => ret = extractClientIp(WithoutPlaceholders(headers), precedence)

C8_Witness ==
    /\ OnlyListed(FORWARDED)
    /\ headers[FORWARDED] = <<"f", "o", "r", "=", "\"", "N", "o", "n", "e", "\"">>
    /\ ret = Null

\* C16: for every header set and every precedence list of strings, whatever
\* the names and the values, extractClientIp ends with an IP or with absent
\* and throws no error.
C16_NeverThrows ==
    op = "extractClientIp" => thrown = "none"

\* a candidate without quotes, commas, semicolons and "="
NoSeparators(v) == \A i \in 1..Len(v) : v[i] \notin {"\"", ",", ";", "="}

\* C18: for every candidate v without quotes, commas, semicolons and "=", a
\* plain header whose value is v and a Forwarded header "for=v" resolve to the
\* same result, the same IP or absent in both cases.
C18_SameOnBothPaths ==
    (OnlyListed(X_REAL_IP) /\ NoSeparators(headers[X_REAL_IP])) =>
        ret = extractClientIp(FORWARDED :> (<<"f", "o", "r", "=">> \o headers[X_REAL_IP]),
                              <<FORWARDED>>)

\* C28: a value returned by extractClientIp is not the empty string and has
\* no leading and no trailing whitespace, whatever the header and the form of
\* its value.
C28_ResolvedIpTrimmed ==
    (op = "extractClientIp" /\ ret.some) =>
        /\ ret.val # << >>
        /\ ret.val = trim(ret.val)

\* C29: a value returned by extractClientIp is never "unknown", "null" or
\* "none" in any letter case, whatever the header and the form of its value.
C29_NeverPlaceholder ==
    (op = "extractClientIp" /\ ret.some) => toLowerCase(ret.val) \notin PlaceholderTokens

\* the for= value of a request that carries one Forwarded header "for=value"
ForValue == trim(SubSeq(headers[FORWARDED], 5, Len(headers[FORWARDED])))

\* x begins and ends with a double quote and has two characters at least
IsQuoted(x) == Len(x) >= 2 /\ x[1] = "\"" /\ x[Len(x)] = "\""

\* what a for= value gives once the quotes are dealt with: absent when it is
\* empty, a placeholder or an obfuscated identifier, the normalized text
\* between the brackets when it starts with "[", and the value without its
\* port when it has the shape IPv4:port, the value itself otherwise
AsItIs(u) ==
    LET t == trim(u)
    IN  IF IsPlaceholder(t) \/ startsWith(t, "_") THEN Null
        ELSE IF startsWith(t, "[") THEN normalizeIpCandidate(C5Expected(t))
        ELSE C4Expected(t)

\* C25: a for= value that begins and ends with a double quote and has two
\* characters at least loses exactly one pair of enclosing quotes before the
\* bracket and the port are handled, and a value that is not quoted is
\* processed as it is; a quoted value whose content is not quoted resolves to
\* what the content resolves to when it is sent without the quotes.
C25_ForwardedQuoting ==
    (OnlyListed(FORWARDED) /\ IsSingleFor(headers[FORWARDED])) =>
        /\ IsQuoted(ForValue) => ret = AsItIs(SubSeq(ForValue, 2, Len(ForValue) - 1))
        /\ ~IsQuoted(ForValue) => ret = AsItIs(ForValue)
        /\ (IsQuoted(ForValue) /\ ~IsQuoted(trim(SubSeq(ForValue, 2, Len(ForValue) - 1)))) =>
               ret = extractClientIp(
                         FORWARDED :> (<<"f", "o", "r", "=">>
                                           \o SubSeq(ForValue, 2, Len(ForValue) - 1)),
                         <<FORWARDED>>)

\* a quoted IPv4 address with a port was resolved to the address
C25_Witness ==
    /\ OnlyListed(FORWARDED)
    /\ headers[FORWARDED]
           = <<"f", "o", "r", "=", "\"", "1", ".", "2", ".", "3", ".", "4", ":", "8", "0", "\"">>
    /\ ret = Some(<<"1", ".", "2", ".", "3", ".", "4">>)

\* the precedence list with every entry in lower case
LowerCased(prec) == [i \in 1..Len(prec) |-> toLowerCase(prec[i])]

\* C24: the entries of the precedence list are matched whatever their letter
\* case: the call returns what it returns for the list spelled in lower case,
\* an entry spelled "Forwarded" or "FORWARDED" gets the parsing of the for=
\* directives and an entry spelled "X-Forwarded-For" the first entry of the list.
C24_NamesCaseInsensitive ==
    Returned("extractClientIp") =>
        /\ ret = extractClientIp(headers, LowerCased(precedence))
        /\ (Len(precedence) = 1 /\ LowerCased(precedence) = <<FORWARDED>>
                /\ FORWARDED \in DOMAIN headers /\ IsSingleFor(headers[FORWARDED])) =>
               ret = AsItIs(Unquoted(ForValue))
        /\ (Len(precedence) = 1 /\ LowerCased(precedence) = <<X_FORWARDED_FOR>>
                /\ X_FORWARDED_FOR \in DOMAIN headers) =>
               ret = normalizeIpCandidate(Some(XffCandidate))

\* the list <<"Forwarded">> resolved a for= directive with other directives
C24_Witness ==
    /\ Returned("extractClientIp")
    /\ precedence = << <<"F", "o", "r", "w", "a", "r", "d", "e", "d">> >>
    /\ FORWARDED \in DOMAIN headers
    /\ ret = Some(<<"1", "9", "2", ".", "0", ".", "2", ".", "6", "0">>)

(***************************************************************************)
(* Properties of the payload and of the fingerprint.                       *)
(***************************************************************************)
\* a label followed by the value of a trait, by nothing when the trait is absent
Labelled(label, v) == label \o (IF v.some THEN v.val ELSE << >>)

Present(v) == IF v.some THEN 1 ELSE 0

\* C9: buildParts returns the segments "ip:", "ua:" and "al:" in that order, each
\* followed by the value of its trait or by nothing when the trait is absent,
\* then "method:" and the method only when the method is present, then "path:"
\* and the path only when the path is present; the length is 3 plus the number
\* of present method and path traits.
C9_PartsLayout ==
    (Returned("buildParts") \/ Returned("fingerprint")) =>
        LET n == 3 + Present(resTraits.method) + Present(resTraits.path)
        IN  /\ Len(resParts) = n
            /\ resParts[1] = Labelled(<<"i", "p", ":">>, resTraits.ip)
            /\ resParts[2] = Labelled(<<"u", "a", ":">>, resTraits.userAgent)
            /\ resParts[3] = Labelled(<<"a", "l", ":">>, resTraits.acceptLanguage)
            /\ resTraits.method.some =>
                   resParts[4] = <<"m", "e", "t", "h", "o", "d", ":">> \o resTraits.method.val
            /\ resTraits.path.some =>
                   resParts[n] = <<"p", "a", "t", "h", ":">> \o resTraits.path.val

\* buildParts was called without ip and without method, with a path
C9_Witness ==
    /\ op = "buildParts"
    /\ ~resTraits.ip.some
    /\ ~resTraits.method.some
    /\ resTraits.path = Some(<<"a">>)
    /\ Len(resParts) = 4
    /\ resParts[1] = <<"i", "p", ":">>
    /\ resParts[4] = <<"p", "a", "t", "h", ":", "a">>

\* C10: the hash fingerprint returns is the hash function applied to the UTF-8
\* bytes of the returned parts joined by "|"; the hash function is the one of
\* the options when there is one, fnv1a64Hex otherwise, and fnv1a64Hex is not
\* invoked when the options carry a hash function.
C10_HashOverReturnedParts ==
    Returned("fingerprint") =>
        LET payload == encode(join(resParts, <<"|">>))
        IN  IF opts.hashFn = "undefined"
            THEN resHash = fnv1a64Hex(payload)
            ELSE /\ resHash = hexDump(payload)
                 /\ \A i \in 1..Len(resCalls) : resCalls[i] # "fnv1a64Hex"

\* fingerprint was called with a hash function, the method and the path
C10_Witness ==
    /\ op = "fingerprint"
    /\ opts.hashFn = "hexDump"
    /\ Len(resParts) = 5
    /\ Len(resHash) = 2 * Len(encode(join(resParts, <<"|">>)))
    /\ resCalls = <<"pathNormalizer", "hashFn">>

(***************************************************************************)
(* Properties of the options of fingerprint.                               *)
(***************************************************************************)
\* the header names of the documented default order, by position
CF_CONNECTING_IP == <<"c", "f", "-", "c", "o", "n", "n", "e", "c", "t", "i", "n", "g", "-", "i", "p">>
FASTLY_CLIENT_IP == <<"f", "a", "s", "t", "l", "y", "-", "c", "l", "i", "e", "n", "t", "-", "i", "p">>
TRUE_CLIENT_IP == <<"t", "r", "u", "e", "-", "c", "l", "i", "e", "n", "t", "-", "i", "p">>

DocumentedOrder ==
    << CF_CONNECTING_IP, FASTLY_CLIENT_IP, FLY_CLIENT_IP, TRUE_CLIENT_IP,
       FORWARDED, X_FORWARDED_FOR, X_REAL_IP >>

\* C17: when the options carry no ipHeaders, fingerprint resolves the IP in the
\* order cf-connecting-ip, fastly-client-ip, fly-client-ip, true-client-ip,
\* forwarded, x-forwarded-for, x-real-ip: the IP is the candidate of the first
\* of these headers that has a valid one, so a valid fly-client-ip value wins
\* over an x-forwarded-for value of the same request.
C17_DefaultPrecedence ==
    (Returned("fingerprint") /\ ~opts.ipHeaders.some) =>
        /\ \A i \in 1..Len(DocumentedOrder) :
               FirstValidAt(headers, DocumentedOrder, i) =>
                   resTraits.ip = headerIp(headers, DocumentedOrder[i])
        /\ (\A i \in 1..Len(DocumentedOrder) : ~headerIp(headers, DocumentedOrder[i]).some) =>
               resTraits.ip = Null
        /\ (/\ FLY_CLIENT_IP \in DOMAIN headers
            /\ X_FORWARDED_FOR \in DOMAIN headers
            /\ DOMAIN headers \cap {CF_CONNECTING_IP, FASTLY_CLIENT_IP} = {}
            /\ normalizeIpCandidate(Some(headers[FLY_CLIENT_IP])).some) =>
               resTraits.ip = normalizeIpCandidate(Some(headers[FLY_CLIENT_IP]))

\* fingerprint was called without ipHeaders on a request with a fly-client-ip
\* and an x-forwarded-for header, and the fly-client-ip value is the IP
C17_Witness ==
    /\ op = "fingerprint"
    /\ ~opts.ipHeaders.some
    /\ FLY_CLIENT_IP \in DOMAIN headers
    /\ X_FORWARDED_FOR \in DOMAIN headers
    /\ headerIp(headers, X_FORWARDED_FOR).some
    /\ resTraits.ip = Some(headers[FLY_CLIENT_IP])

\* C12: when includeMethod is not true, the method trait is absent, no part
\* starts with "method:", and the call returns the hash, the parts and the
\* traits it returns for the same source with any other method or without one.
C12_MethodOptIn ==
    (Returned("fingerprint") /\ opts.includeMethod # "true") =>
        /\ resTraits.method = Null
        /\ \A i \in 1..Len(resParts) :
               ~hasPrefix(resParts[i], <<"m", "e", "t", "h", "o", "d", ":">>)
        /\ \A m2 \in Opt(FpMethods) \ {srcMethod} :
               LET other == fingerprint([headers |-> headers, method |-> m2, url |-> srcUrl],
                                        opts)
               IN  /\ other.thrown = "none"
                   /\ other.hash = resHash
                   /\ other.parts = resParts
                   /\ other.traits = resTraits

\* fingerprint was called with includeMethod false on a source with a method
C12_Witness ==
    /\ Returned("fingerprint")
    /\ opts.includeMethod = "false"
    /\ srcMethod = Some(<<"P", "O", "S", "T">>)
    /\ resTraits.method = Null
    /\ Len(resParts) = 3 + Present(resTraits.path)

\* C13: when includePath is not true, the path normalizer is not invoked, the
\* path trait is absent, no part starts with "path:", and the call returns the
\* hash, the parts and the traits it returns for the same source without url,
\* so that two sources that differ only in their url have the same result.
C13_PathOptIn ==
    (op = "fingerprint" /\ opts.includePath # "true") =>
        /\ \A i \in 1..Len(resCalls) : resCalls[i] # "pathNormalizer"
        /\ thrown # "pathNormalizer error"
        /\ thrown = "none" =>
               /\ resTraits.path = Null
               /\ \A i \in 1..Len(resParts) :
                      ~hasPrefix(resParts[i], <<"p", "a", "t", "h", ":">>)
               /\ srcUrl # NoUrl =>
                      LET other == fingerprint([headers |-> headers, method |-> srcMethod,
                                                url |-> NoUrl], opts)
                      IN  /\ other.thrown = "none"
                          /\ other.hash = resHash
                          /\ other.parts = resParts
                          /\ other.traits = resTraits

\* fingerprint was called with includePath false, a url and a path normalizer
\* that throws, and it returned
C13_Witness ==
    /\ Returned("fingerprint")
    /\ opts.includePath = "false"
    /\ opts.pathNormalizer = "throws"
    /\ srcUrl.kind = "string"
    /\ resTraits.path = Null
    /\ resCalls = <<"hashFn">>

\* the url is a URL object or a string that parses against the base
Parses(u) == u.kind = "URL" \/ (u.kind = "string" /\ urlPathname(u.text).some)

\* the pathname of a url that parses
Pathname(u) == IF u.kind = "URL" THEN u.text ELSE urlPathname(u.text).val

\* C14: with includePath true and a url that parses to the path p, the path
\* trait is what the path normalizer returns for p, p itself when there is no
\* normalizer, and the last part is "path:" followed by the path trait; the
\* output of the normalizer is not validated, the empty string included.
\* Replacing the digit runs of "/users/123/profile" by ":id" gives
\* "/users/:id/profile".
C14_NormalizerVerbatim ==
    /\ (Returned("fingerprint") /\ opts.includePath = "true" /\ Parses(srcUrl)) =>
           LET p == Pathname(srcUrl)
               expected == IF opts.pathNormalizer = "undefined"
                           THEN p
                           ELSE applyNormalizer(opts.pathNormalizer, p).val
           IN  /\ resTraits.path = Some(expected)
               /\ resParts[Len(resParts)] = <<"p", "a", "t", "h", ":">> \o expected
               /\ opts.pathNormalizer = "empty" => resTraits.path = Some(<< >>)
    /\ op = "fingerprint" =>
           applyNormalizer("collapseIds",
                           <<"/", "u", "s", "e", "r", "s", "/", "1", "2", "3", "/",
                             "p", "r", "o", "f", "i", "l", "e">>).val
               = <<"/", "u", "s", "e", "r", "s", "/", ":", "i", "d", "/",
                   "p", "r", "o", "f", "i", "l", "e">>

\* fingerprint was called with a path normalizer that returns the empty string
C14_Witness ==
    /\ Returned("fingerprint")
    /\ opts.includePath = "true"
    /\ opts.pathNormalizer = "empty"
    /\ srcUrl = [kind |-> "string", text |-> <<"/", "u", "/", "1", "2", "?", "x", "=", "1">>]
    /\ resTraits.path = Some(<< >>)
    /\ resParts[Len(resParts)] = <<"p", "a", "t", "h", ":">>
    /\ resCalls = <<"pathNormalizer", "hashFn">>

\* the path the fallback rule gives before normalization: the pathname of a url
\* that parses, the raw string of one that does not parse and starts with "/"
FallbackPath(u) ==
    IF u.kind = "undefined" THEN Null
    ELSE IF Parses(u) THEN Some(Pathname(u))
    ELSE IF startsWith(u.text, "/") THEN Some(u.text)
    ELSE Null

\* C19: with includePath true, the path trait of a URL object is its pathname,
\* the one of a string that parses is the parsed pathname, the one of a string
\* that does not parse is the raw string when it starts with "/" and absent
\* otherwise, and the one of an undefined url is absent; a path that is not
\* absent goes through the path normalizer.
C19_PathFallback ==
    (Returned("fingerprint") /\ opts.includePath = "true") =>
        LET raw == FallbackPath(srcUrl)
        IN  resTraits.path =
                IF ~raw.some THEN Null
                ELSE IF opts.pathNormalizer = "undefined" THEN raw
                ELSE Some(applyNormalizer(opts.pathNormalizer, raw.val).val)

\* the callback or hash function f was invoked by the call of the state
Invoked(f) == \E i \in 1..Len(resCalls) : resCalls[i] = f

\* the call of the state has no result
NoResult == resHash = << >> /\ resParts = << >> /\ resTraits = NoTraits

\* C20: when the path normalizer throws, fingerprint throws the error of the
\* normalizer, has no result and invokes no hash function; when the hash
\* function of the options throws, fingerprint throws the error of the hash
\* function and has no result; fingerprint throws no other error of a callback
\* and none when every callback it invokes returns.
C20_CallbackFailuresPropagate ==
    op = "fingerprint" =>
        /\ (opts.pathNormalizer = "throws" /\ Invoked("pathNormalizer")) =>
               /\ thrown = "pathNormalizer error"
               /\ NoResult
               /\ ~Invoked("hashFn")
               /\ ~Invoked("fnv1a64Hex")
        /\ (opts.hashFn = "throws" /\ Invoked("hashFn")) =>
               /\ thrown = "hashFn error"
               /\ NoResult
        /\ thrown = "pathNormalizer error" =>
               (opts.pathNormalizer = "throws" /\ Invoked("pathNormalizer"))
        /\ thrown = "hashFn error" => (opts.hashFn = "throws" /\ Invoked("hashFn"))
        /\ (opts.includePath = "true" /\ Parses(srcUrl) /\ opts.pathNormalizer = "throws")
               => thrown = "pathNormalizer error"
        /\ (opts.hashFn = "throws" /\ thrown # "pathNormalizer error")
               => thrown = "hashFn error"

\* the path normalizer threw on a call whose options carry a hash function
C20_Witness ==
    /\ op = "fingerprint"
    /\ opts.pathNormalizer = "throws"
    /\ opts.hashFn = "hexDump"
    /\ thrown = "pathNormalizer error"
    /\ resCalls = <<"pathNormalizer">>
    /\ NoResult

(***************************************************************************)
(* Properties of the hash function.  The reference FNV-1a is computed on   *)
(* the eight bytes of the accumulator, the least significant first:        *)
(* acc * 0x100000001b3 is acc * 0x1b3 plus acc shifted left by five bytes. *)
(***************************************************************************)
\* 2 to the power k
RECURSIVE Pow2(_)
Pow2(k) == IF k = 0 THEN 1 ELSE 2 * Pow2(k - 1)

\* bit k of the byte x
Bit(x, k) == (x \div Pow2(k)) % 2

\* the exclusive or of two bytes, bit by bit
RECURSIVE XorFrom(_, _, _)
XorFrom(x, y, k) ==
    IF k > 7 THEN 0 ELSE Pow2(k) * ((Bit(x, k) + Bit(y, k)) % 2) + XorFrom(x, y, k + 1)

\* the bytes i.. of 435 * a modulo 2^64, with the carry into byte i
RECURSIVE TimesLow(_, _, _)
TimesLow(a, i, carry) ==
    IF i > 8
    THEN << >>
    ELSE LET t == a[i] * 435 + carry
         IN  <<t % 256>> \o TimesLow(a, i + 1, t \div 256)

\* the bytes i.. of a + b modulo 2^64, with the carry into byte i
RECURSIVE PlusFrom(_, _, _, _)
PlusFrom(a, b, i, carry) ==
    IF i > 8
    THEN << >>
    ELSE LET t == a[i] + b[i] + carry
         IN  <<t % 256>> \o PlusFrom(a, b, i + 1, t \div 256)

\* ((acc XOR byte) * 0x100000001b3) mod 2^64
RefStep(acc, byte) ==
    LET x == <<XorFrom(acc[1], byte, 0)>> \o Tail(acc)
    IN  PlusFrom(TimesLow(x, 1, 0), <<0, 0, 0, 0, 0, x[1], x[2], x[3]>>, 1, 0)

\* the accumulator after the bytes, starting from 0xcbf29ce484222325
RECURSIVE RefFnv(_)
RefFnv(bytes) ==
    IF bytes = << >>
    THEN <<37, 35, 34, 132, 228, 156, 242, 203>>
    ELSE RefStep(RefFnv(SubSeq(bytes, 1, Len(bytes) - 1)), bytes[Len(bytes)])

\* the 16 lower-case hexadecimal digits of the accumulator
RefHex(acc) ==
    [k \in 1..16 |->
        LET byte == acc[8 - ((k - 1) \div 2)]
        IN  HexChars[(IF k % 2 = 1 THEN byte \div 16 ELSE byte % 16) + 1]]

\* C15: for every byte sequence fnv1a64Hex returns the 16 lower-case
\* hexadecimal digits, zero-padded, of the reference FNV-1a 64-bit: the
\* accumulator starts at 0xcbf29ce484222325 and each byte replaces it by
\* ((acc XOR byte) * 0x100000001b3) mod 2^64.  The empty input gives
\* "cbf29ce484222325" and the bytes of "hello" give "a430d84680aabd0b".
C15_MatchesReferenceFnv1a ==
    op = "fnv1a64Hex" =>
        /\ resHash = RefHex(RefFnv(hashData))
        /\ Len(resHash) = 16
        /\ \A i \in 1..16 : \E j \in 1..16 : resHash[i] = HexChars[j]
        /\ hashData = << >> =>
               resHash = <<"c", "b", "f", "2", "9", "c", "e", "4",
                           "8", "4", "2", "2", "2", "3", "2", "5">>
        /\ hashData = <<104, 101, 108, 108, 111>> =>
               resHash = <<"a", "4", "3", "0", "d", "8", "4", "6",
                           "8", "0", "a", "a", "b", "d", "0", "b">>

\* fnv1a64Hex was called on the bytes of "hello"
C15_Witness ==
    /\ op = "fnv1a64Hex"
    /\ hashData = <<104, 101, 108, 108, 111>>
    /\ resHash = <<"a", "4", "3", "0", "d", "8", "4", "6",
                   "8", "0", "a", "a", "b", "d", "0", "b">>

C22_EmptyPrecedenceAbsent ==
    /\ (op = "extractClientIp" /\ precedence = << >>) => (thrown = "none" /\ ret = Null)
    /\ op = "fingerprint" =>
           (~extractClientIpThrows(headers, << >>) /\ extractClientIp(headers, << >>) = Null)
    /\ (op = "fingerprint" /\ opts.ipHeaders = Some(<< >>)) =>
           /\ thrown = "none"
           /\ resTraits.ip = Null
           /\ resParts[1] = <<"i", "p", ":">>

\* fingerprint was called with an empty ipHeaders list on a request with an
\* x-forwarded-for header
C22_Witness ==
    /\ Returned("fingerprint")
    /\ opts.ipHeaders = Some(<< >>)
    /\ X_FORWARDED_FOR \in DOMAIN headers
    /\ headerIp(headers, X_FORWARDED_FOR).some
    /\ resTraits.ip = Null
    /\ resParts[1] = <<"i", "p", ":">>

\* the trait t is the trimmed value of the header name of the request, absent
\* when the header is missing or empty once trimmed, and the part at position
\* i is the label followed by the trait or by nothing
TrimmedOrAbsent(t, name, label, i) ==
    /\ t # Some(<< >>)
    /\ IF name \in DOMAIN headers /\ trim(headers[name]) # << >>
       THEN /\ t = Some(trim(headers[name]))
            /\ t.val[1] \notin WhiteSpace
            /\ t.val[Len(t.val)] \notin WhiteSpace
            /\ resParts[i] = label \o trim(headers[name])
       ELSE /\ t = Null
            /\ resParts[i] = label

\* C23: the userAgent and the acceptLanguage traits are each absent, when the
\* header is missing or empty once trimmed, or the header value without its
\* leading and trailing whitespace; neither is the empty string, and an absent
\* one gives the part "ua:" or "al:".
C23_TrimmedOrAbsent ==
    Returned("fingerprint") =>
        /\ TrimmedOrAbsent(resTraits.userAgent, USER_AGENT, <<"u", "a", ":">>, 2)
        /\ TrimmedOrAbsent(resTraits.acceptLanguage, ACCEPT_LANGUAGE, <<"a", "l", ":">>, 3)

\* a request without User-Agent and with an Accept-Language of whitespace only
C23_Witness ==
    /\ Returned("fingerprint")
    /\ USER_AGENT \notin DOMAIN headers
    /\ headers[ACCEPT_LANGUAGE] = <<" ", " ">>
    /\ resTraits.userAgent = Null
    /\ resTraits.acceptLanguage = Null
    /\ resParts[2] = <<"u", "a", ":">>
    /\ resParts[3] = <<"a", "l", ":">>

(***************************************************************************)
(* Properties of the serialization.                                        *)
(***************************************************************************)
\* the payload of a trait record
Payload(t) == join(buildParts(t), <<"|">>)

\* trait records that look like another one once serialized
Lookalikes ==
    [ip : {Null, Some(<< >>)},
     userAgent : {Null},
     acceptLanguage : {Null, Some(<<"x">>)},
     method : {Null},
     path : {Null, Some(<<"b">>)}]

\* C27 as stated: two trait records that differ have different payloads, also
\* when a value contains "|" or a label.
C27_SerializationInjective ==
    Returned("buildParts") =>
        \A t2 \in Lookalikes : t2 # resTraits => Payload(t2) # join(resParts, <<"|">>)

\* no value of the record contains "|", and its ip, userAgent and
\* acceptLanguage are not the empty string
Unambiguous(t) ==
    /\ \A f \in {"ip", "userAgent", "acceptLanguage", "method", "path"} :
           \A i \in 1..Len(t[f].val) : t[f].val[i] # "|"
    /\ \A f \in {"ip", "userAgent", "acceptLanguage"} : t[f] # Some(<< >>)

\* the segment without its label of n characters, absent when nothing is left
Unlabelled(segment, n) ==
    IF Len(segment) = n THEN Null ELSE Some(SubSeq(segment, n + 1, Len(segment)))

\* the trait record read back from a payload
Decode(payload) ==
    LET segments == split(payload, "|")
        n == Len(segments)
        isMethod(k) == n >= k /\ hasPrefix(segments[k], <<"m", "e", "t", "h", "o", "d", ":">>)
    IN  [ip |-> Unlabelled(segments[1], 3),
         userAgent |-> Unlabelled(segments[2], 3),
         acceptLanguage |-> Unlabelled(segments[3], 3),
         method |-> IF isMethod(4) THEN Some(SubSeq(segments[4], 8, Len(segments[4]))) ELSE Null,
         path |-> IF n = 5 \/ (n = 4 /\ ~isMethod(4))
                  THEN Some(SubSeq(segments[n], 6, Len(segments[n])))
                  ELSE Null]

\* C27 as amended: a trait record none of whose values contains "|" and whose
\* ip, userAgent and acceptLanguage are not the empty string can be read back
\* from its payload, also when a value contains a label, so that two such
\* records that differ have different payloads.
C27_InjectiveWithoutSeparator ==
    ((Returned("buildParts") \/ Returned("fingerprint")) /\ Unambiguous(resTraits)) =>
        Decode(join(resParts, <<"|">>)) = resTraits

\* buildParts was called on values that contain a label and no "|"
C27_Witness ==
    /\ Returned("buildParts")
    /\ Unambiguous(resTraits)
    /\ resTraits.acceptLanguage = Some(<<"p", "a", "t", "h", ":", "b">>)
    /\ resTraits.method = Null
    /\ resTraits.path = Some(<<"p", "a", "t", "h", ":", "b">>)
    /\ Decode(join(resParts, <<"|">>)) = resTraits

(***************************************************************************)
(* Properties of the callbacks of one fingerprint call.                    *)
(***************************************************************************)
\* how often the call of the state invoked f
Invocations(f) == Cardinality({ i \in 1..Len(resCalls) : resCalls[i] = f })

\* the hash function of the call: options?.hashFn ?? fnv1a64Hex
HashFnOf(options) == IF options.hashFn = "undefined" THEN "fnv1a64Hex" ELSE "hashFn"

\* the path normalizer is invoked at most once, only when includePath is true
\* and the url resolved to a path, and before the hash function
NormalizerOrder ==
    /\ Invocations("pathNormalizer") <= 1
    /\ Invoked("pathNormalizer") =>
           /\ opts.includePath = "true"
           /\ opts.pathNormalizer # "undefined"
           /\ Parses(srcUrl)
           /\ resCalls[1] = "pathNormalizer"
    /\ \A i \in 1..Len(resCalls) : resCalls[i] # "pathNormalizer" => i = Len(resCalls)

\* the hash function was invoked on the bytes of the joined parts of the result
HashedJoinedParts ==
    Returned("fingerprint") =>
        /\ Len(resParts) >= 3
        /\ opts.hashFn # "undefined" => resHash = hexDump(encode(join(resParts, <<"|">>)))
        /\ opts.hashFn = "undefined" => resHash = fnv1a64Hex(encode(join(resParts, <<"|">>)))

\* C30 as stated: in one call of fingerprint the path normalizer is invoked at
\* most once, only when includePath is true and the url resolved to a path,
\* and before the hash function; the hash function is invoked exactly once,
\* after the parts are built, on the bytes of the joined parts.
C30_CallbackOrderAndCount ==
    op = "fingerprint" =>
        /\ NormalizerOrder
        /\ Invocations(HashFnOf(opts)) = 1
        /\ HashedJoinedParts

\* C30 as amended: the path normalizer is invoked at most once, only when
\* includePath is true and the url resolved to a path, and before the hash
\* function; the hash function of the call is invoked exactly once, last, on
\* the bytes of the joined parts, in a call that gets as far as hashing, and
\* not at all in a call that throws before: when a header name of the
\* precedence list is rejected or the path normalizer throws.  No other
\* callback is invoked.
C30_HashOnceUnlessThrownBefore ==
    op = "fingerprint" =>
        /\ NormalizerOrder
        /\ \A i \in 1..Len(resCalls) : resCalls[i] \in {"pathNormalizer", HashFnOf(opts)}
        /\ thrown \in {"none", "hashFn error"} => Invocations(HashFnOf(opts)) = 1
        /\ thrown \in {"TypeError", "pathNormalizer error"} => Invocations(HashFnOf(opts)) = 0
        /\ (opts.includePath = "true" /\ opts.pathNormalizer # "undefined"
              /\ Parses(srcUrl) /\ thrown # "TypeError")
               => Invocations("pathNormalizer") = 1
        /\ HashedJoinedParts

\* fingerprint invoked the path normalizer and then the hash function of the
\* options, and returned
C30_Witness ==
    /\ Returned("fingerprint")
    /\ resCalls = <<"pathNormalizer", "hashFn">>
    /\ opts.pathNormalizer = "collapseIds"
    /\ resHash = hexDump(encode(join(resParts, <<"|">>)))

(***************************************************************************)
(* Headers outside the precedence list.                                    *)
(***************************************************************************)
\* the header names a call of fingerprint with these options may depend on:
\* the entries of the precedence list, User-Agent and Accept-Language
TrustedNames(options) ==
    LET L == IF options.ipHeaders.some THEN options.ipHeaders.val ELSE DEFAULT_IP_HEADERS
    IN  { toLowerCase(L[i]) : i \in 1..Len(L) } \cup {USER_AGENT, ACCEPT_LANGUAGE}

\* the request headers without the headers that are not named
OnlyNamed(h, names) == [n \in DOMAIN h \cap names |-> h[n]]

\* C26: a call of fingerprint gives the hash, the parts and the traits (or
\* throws the error) that it gives on the same method, url and options and
\* the request without the headers outside the precedence list, User-Agent
\* and Accept-Language; two requests that agree on those headers, on the
\* method and on the url therefore get identical results.
C26_UntrustedHeadersIgnored ==
    op = "fingerprint" =>
        LET trusted == OnlyNamed(headers, TrustedNames(opts))
            alone == fingerprint([headers |-> trusted, method |-> srcMethod, url |-> srcUrl],
                                 opts)
        IN  trusted # headers =>
                /\ alone.thrown = thrown
                /\ alone.hash = resHash
                /\ alone.parts = resParts
                /\ alone.traits = resTraits

\* the precedence list names Fly-Client-IP only and the request carries an
\* X-Forwarded-For header as well
C26_Witness ==
    /\ Returned("fingerprint")
    /\ opts.ipHeaders = Some(<<FLY_CLIENT_IP>>)
    /\ X_FORWARDED_FOR \in DOMAIN headers
    /\ OnlyNamed(headers, TrustedNames(opts)) # headers
    /\ resTraits.ip = HeadersGet(headers, FLY_CLIENT_IP)
    /\ resTraits.ip.some

====
